---------------------------- MODULE Spec2Model ----------------------------
(***************************************************************************)
(* Model of train_GlasXC.py: the GlasXC training script.                   *)
(*                                                                         *)
(* The script is one top-level sequence of statements.  The model follows  *)
(* it with a program counter:                                              *)
(*   "start" (l.92)  -> "epoch" (l.160) -> "batch" (l.162) -> ...          *)
(*   -> "plot" (l.237) -> "save" (l.259) -> "test" (l.278) -> "end".       *)
(* An uncaught exception sets err and leaves pc at the failing block (the  *)
(* traceback); nothing runs afterwards.                                    *)
(*                                                                         *)
(* The statements are modelled as executed by an interpreter that accepts *)
(* the file (the tabs of l.170-183 expanded to 8 columns).  An interpreter *)
(* that rejects mixed tabs and spaces stops with TabError before the first *)
(* statement and has no behaviour to model.                                *)
(*                                                                         *)
(* Spec   : the whole script.                                              *)
(* SpecFn : the computations of the batch body after the sampling block    *)
(*          (co-occurrence and inversion of l.186-193, the interval test   *)
(*          of l.212-215) applied to inputs drawn from bounded sets.       *)
(***************************************************************************)
EXTENDS Integers, Sequences, FiniteSets, TLC

VARIABLES args, cuda_available, USE_TEST_DSET, numBatches,
          pc, err, epoch, batchIdx, cur_no, all_iters,
          y, t1, A, Z, glas, grad, updates,
          CLASS_LOSS, AVG_P_AT_K, AVG_NDCG_AT_K,
          out, dev, saved, plotted

vars == <<args, cuda_available, USE_TEST_DSET, numBatches,
          pc, err, epoch, batchIdx, cur_no, all_iters,
          y, t1, A, Z, glas, grad, updates,
          CLASS_LOSS, AVG_P_AT_K, AVG_NDCG_AT_K,
          out, dev, saved, plotted>>

(* ------------------------------ bounds --------------------------------- *)
\* whole-script runs
MaxEpochs    == 2
MaxBatches   == 1
MaxBatchSize == 1
MaxVocab     == 2
MaxInterval  == 2
\* the batch computations on their own
MaxSamples   == 2
MaxLabels    == 3
MaxIters     == 4

(* --------------------------- configuration ----------------------------- *)
\* --save_model choices (l.81-83)
Selectors == {"all", "inputAE", "outputAE", "regressor"}

\* the five subcomponents of Glas_XC that the script names (l.261-273)
Subs == {"input_encoder", "input_decoder", "output_encoder",
         "output_decoder", "regressor"}

\* --device (l.59-60, l.92-93): only the device type matters
Devices == {"cpu", "cuda"}

\* TIME_STAMP is computed once, at import (l.32)
TIME_STAMP == "utcnow"

\* the value of the loop variable `epoch` before the for statement binds it
Unbound == -1

\* the parsed arguments (l.88).  save_model is None by default; nargs='+'
\* never yields an empty list, so {} stands for None.
Args == [epochs     : 0..MaxEpochs,
         interval   : (-MaxInterval)..MaxInterval,
         batch_size : 1..MaxBatchSize,
         device     : Devices,
         plot       : BOOLEAN,
         save_model : SUBSET Selectors]

(* ------------------------------ matrices ------------------------------- *)
\* a batch label matrix: rows = samples, columns = labels, entries 0/1
LabelMatrices(maxRows, maxCols) ==
  UNION { [1..n -> [1..m -> {0, 1}]] : n \in 1..maxRows, m \in 1..maxCols }

Rows(M) == Len(M)
Cols(M) == Len(M[1])

\* y.t()
Transpose(M) == [j \in 1..Cols(M) |-> [i \in 1..Rows(M) |-> M[i][j]]]

RECURSIVE DotUpTo(_, _, _, _, _)
DotUpTo(P, Q, i, j, k) ==
  IF k = 0 THEN 0 ELSE P[i][k] * Q[k][j] + DotUpTo(P, Q, i, j, k - 1)

\* torch.mm(P, Q)
MatMul(P, Q) ==
  [i \in 1..Rows(P) |-> [j \in 1..Cols(Q) |-> DotUpTo(P, Q, i, j, Cols(P))]]

\* a deliberately wrong co-occurrence: the product leaves out the last sample
CoOccurrenceDropsSample(Y) ==
  [i \in 1..Cols(Y) |-> [j \in 1..Cols(Y) |->
      DotUpTo(Transpose(Y), Y, i, j, Rows(Y) - 1)]]

\* A = torch.mm(y.t(), y)   (l.186)
CoOccurrence(Y) == MatMul(Transpose(Y), Y)

\* Z = torch.diag(A); Z = torch.diag(Z)   (l.187-188)
DiagMatrix(M) ==
  [i \in 1..Rows(M) |-> [j \in 1..Rows(M) |-> IF i = j THEN M[i][i] ELSE 0]]

\* torch.inverse(Z) (l.189): LU factorisation of the diagonal matrix Z meets
\* a zero pivot exactly when a diagonal entry is zero, and torch raises its
\* generic RuntimeError; the script neither tests Z nor catches anything.
TorchInverse(M) ==
  IF \E i \in 1..Rows(M) : M[i][i] = 0 THEN "RuntimeError" ELSE "ok"

\* l.184-193: outcome of the regularizer block for the batch labels Y
GlasRegularizer(Y) ==
  IF TorchInverse(DiagMatrix(CoOccurrence(Y))) = "ok" THEN "loss"
  ELSE TorchInverse(DiagMatrix(CoOccurrence(Y)))

\* t1 = t[1::2].unique() over torch.nonzero(y)   (l.174-176): the indices of
\* the label columns with at least one non-zero entry
NonZeroColumns(Y) == { j \in 1..Cols(Y) : \E i \in 1..Rows(Y) : Y[i][j] # 0 }

\* l.177-180: t1.numpy() raises TypeError for a tensor on an accelerator;
\* otherwise l.178 evaluates the name `numpy`, which no import binds (l.15
\* binds `np`), and raises NameError before `batch_size` (also unbound) and
\* numpy's own size check are ever reached.
SamplingBlock(device) ==
  IF device = "cuda" THEN "TypeError" ELSE "NameError"

(* --------------------------- interval logging -------------------------- *)
\* Python's a % b for a >= 0 and b # 0: the result takes the sign of b
PyMod(a, b) ==
  IF b > 0 THEN a % b
  ELSE IF a % (-b) = 0 THEN 0 ELSE (a % (-b)) + b

\* l.213: `all_iters % args.interval == 0`
IntervalTest(iters, interval) ==
  IF interval = 0 THEN "ZeroDivisionError"
  ELSE IF PyMod(iters, interval) = 0 THEN "log" ELSE "quiet"

LogLine(kind, it) == [kind |-> kind, iter |-> it]

(* -------------------------------- saving ------------------------------- *)
\* a save block that forgets the 'all' selector for the regressor
SavedSubsForgetsAll(sel) ==
  (IF "inputAE" \in sel \/ "all" \in sel
     THEN {"input_encoder", "input_decoder"} ELSE {})
  \cup (IF "outputAE" \in sel \/ "all" \in sel
     THEN {"output_encoder", "output_decoder"} ELSE {})
  \cup (IF "regressor" \in sel THEN {"regressor"} ELSE {})

\* l.259-274: the subcomponents passed to torch.save for a selector list
SavedSubs(sel) ==
  (IF "inputAE" \in sel \/ "all" \in sel
     THEN {"input_encoder", "input_decoder"} ELSE {})
  \cup (IF "outputAE" \in sel \/ "all" \in sel
     THEN {"output_encoder", "output_decoder"} ELSE {})
  \cup (IF "regressor" \in sel \/ "all" \in sel THEN {"regressor"} ELSE {})

\* 'trained_<sub>_{}.pt'.format(TIME_STAMP)
FileName(s) == <<"trained_", s, TIME_STAMP>>

(* ------------------------------ evaluation ----------------------------- *)
\* Glas_XC.predict(x) with x on the configured device.  Which subcomponents
\* predict runs is not in this file; when some subcomponent sits on another
\* device the call may or may not meet it.
PredictOutcomes(d, device) ==
  IF \A s \in Subs : d[s] = device THEN {"ok"} ELSE {"ok", "RuntimeError"}

\* l.219-228: predict on every batch of the loader, then np.vstack, which
\* raises ValueError on the empty list an empty loader leaves
EvalOutcomes(nb, d, device) ==
  IF nb = 0 THEN {"ValueError"} ELSE PredictOutcomes(d, device)

(* -------------------------------- Init --------------------------------- *)
\* the values every specification starts from (l.146-154; modules are
\* constructed on the cpu, l.112)
Blank ==
  /\ err = "none"
  /\ epoch = Unbound
  /\ batchIdx = 0
  /\ cur_no = 0
  /\ all_iters = 0
  /\ t1 = {}
  /\ A = <<>>
  /\ Z = <<>>
  /\ glas = "none"
  /\ grad = "none"
  /\ updates = 0
  /\ CLASS_LOSS = <<>>
  /\ AVG_P_AT_K = <<>>
  /\ AVG_NDCG_AT_K = <<>>
  /\ out = <<>>
  /\ dev = [s \in Subs |-> "cpu"]
  /\ saved = {}
  /\ plotted = FALSE

Init ==
  /\ args \in Args
  /\ cuda_available \in BOOLEAN
  /\ (args.device = "cpu" => cuda_available = FALSE)
  /\ USE_TEST_DSET \in BOOLEAN
  /\ numBatches \in 0..MaxBatches
  /\ pc = "start"
  /\ y = <<>>
  /\ Blank

Running == err = "none"

Raise(e) == err' = e

(* ------------------------------- actions ------------------------------- *)
\* l.92-115: device check, then Glas_XC.to(cur_device)
ModelInit ==
  /\ Running /\ pc = "start"
  /\ IF args.device = "cuda" /\ ~cuda_available
       THEN /\ Raise("ValueError")
            /\ UNCHANGED <<pc, dev>>
       ELSE /\ dev' = [s \in Subs |-> args.device]
            /\ pc' = "epoch"
            /\ UNCHANGED err
  /\ UNCHANGED <<args, cuda_available, USE_TEST_DSET, numBatches, epoch,
                 batchIdx, cur_no, all_iters, y, t1, A, Z, glas, grad,
                 updates, CLASS_LOSS, AVG_P_AT_K, AVG_NDCG_AT_K, out, saved,
                 plotted>>

\* l.160-161: `for epoch in range(args.epochs)`, then cur_no = 0 and a fresh
\* iterator over the training loader
EpochStart ==
  /\ Running /\ pc = "epoch"
  /\ IF epoch + 1 < args.epochs
       THEN /\ epoch' = epoch + 1
            /\ cur_no' = 0
            /\ batchIdx' = 0
            /\ pc' = "batch"
       ELSE /\ pc' = "plot"
            /\ UNCHANGED <<epoch, cur_no, batchIdx>>
  /\ UNCHANGED <<args, cuda_available, USE_TEST_DSET, numBatches, err,
                 all_iters, y, t1, A, Z, glas, grad, updates, CLASS_LOSS,
                 AVG_P_AT_K, AVG_NDCG_AT_K, out, dev, saved, plotted>>

\* l.184-217, the part of the batch body after the sampling block
BatchTail(Y) ==
  /\ A' = CoOccurrence(Y)
  /\ Z' = DiagMatrix(CoOccurrence(Y))
  /\ glas' = GlasRegularizer(Y)
  /\ IF GlasRegularizer(Y) # "loss"
       THEN /\ Raise(GlasRegularizer(Y))
            /\ grad' = "zero"
            /\ UNCHANGED <<updates, all_iters, out, CLASS_LOSS>>
       ELSE /\ grad' = "computed"                        \* l.210
            /\ updates' = updates + 1                    \* l.211
            /\ all_iters' = all_iters + 1                \* l.212
            /\ IF IntervalTest(all_iters + 1, args.interval) = "ZeroDivisionError"
                 THEN /\ Raise("ZeroDivisionError")
                      /\ UNCHANGED <<out, CLASS_LOSS>>
                 ELSE /\ out' = IF IntervalTest(all_iters + 1, args.interval) = "log"
                                  THEN Append(out, LogLine("interval", all_iters + 1))
                                  ELSE out
                      /\ CLASS_LOSS' = Append(CLASS_LOSS, all_iters + 1)  \* l.217
                      /\ UNCHANGED err

\* l.162-217: one batch is fetched and processed
BatchStep ==
  /\ Running /\ pc = "batch" /\ batchIdx < numBatches
  /\ \E Y \in LabelMatrices(args.batch_size, MaxVocab) :
       /\ batchIdx' = batchIdx + 1
       /\ y' = Y
       /\ cur_no' = cur_no + Rows(Y)                     \* l.165
       /\ t1' = NonZeroColumns(Y)                        \* l.174-176
       /\ IF SamplingBlock(args.device) # "ok"
            THEN /\ Raise(SamplingBlock(args.device))
                 /\ grad' = "zero"                       \* l.167
                 /\ UNCHANGED <<A, Z, glas, updates, all_iters, out,
                                CLASS_LOSS>>
            ELSE BatchTail(Y)
  /\ UNCHANGED <<args, cuda_available, USE_TEST_DSET, numBatches, pc, epoch,
                 AVG_P_AT_K, AVG_NDCG_AT_K, dev, saved, plotted>>

\* l.219-234: the loader is exhausted; evaluate on the training set
EpochEval ==
  /\ Running /\ pc = "batch" /\ batchIdx = numBatches
  /\ \E p \in EvalOutcomes(numBatches, dev, args.device) :
       IF p # "ok"
         THEN /\ Raise(p)
              /\ UNCHANGED <<pc, out, AVG_P_AT_K, AVG_NDCG_AT_K>>
         ELSE /\ out' = Append(out, LogLine("epoch", epoch))
              /\ AVG_P_AT_K' = Append(AVG_P_AT_K, epoch)
              /\ AVG_NDCG_AT_K' = Append(AVG_NDCG_AT_K, epoch)
              /\ pc' = "epoch"
              /\ UNCHANGED err
  /\ UNCHANGED <<args, cuda_available, USE_TEST_DSET, numBatches, epoch,
                 batchIdx, cur_no, all_iters, y, t1, A, Z, glas, grad,
                 updates, CLASS_LOSS, dev, saved, plotted>>

\* l.237-255: the series are plotted against range(1, all_iters + 1) and
\* range(1, args.epochs + 1); pyplot raises ValueError on unequal lengths
Plot ==
  /\ Running /\ pc = "plot"
  /\ IF args.plot /\ ( \/ Len(CLASS_LOSS) # all_iters
                       \/ Len(AVG_P_AT_K) # args.epochs
                       \/ Len(AVG_NDCG_AT_K) # args.epochs )
       THEN /\ Raise("ValueError")
            /\ UNCHANGED <<pc, plotted>>
       ELSE /\ plotted' = args.plot
            /\ pc' = "save"
            /\ UNCHANGED err
  /\ UNCHANGED <<args, cuda_available, USE_TEST_DSET, numBatches, epoch,
                 batchIdx, cur_no, all_iters, y, t1, A, Z, glas, grad,
                 updates, CLASS_LOSS, AVG_P_AT_K, AVG_NDCG_AT_K, out, dev,
                 saved>>

\* l.259-274: torch.save(Glas_XC.<sub>.to('cpu'), name).  Module.to moves
\* the module in place.
Save ==
  /\ Running /\ pc = "save"
  /\ saved' = saved \cup { FileName(s) : s \in SavedSubs(args.save_model) }
  /\ dev' = [s \in Subs |->
               IF s \in SavedSubs(args.save_model) THEN "cpu" ELSE dev[s]]
  /\ pc' = "test"
  /\ UNCHANGED <<args, cuda_available, USE_TEST_DSET, numBatches, err, epoch,
                 batchIdx, cur_no, all_iters, y, t1, A, Z, glas, grad,
                 updates, CLASS_LOSS, AVG_P_AT_K, AVG_NDCG_AT_K, out,
                 plotted>>

\* l.278-293: evaluation on the held-out set (a configured held-out set
\* yields at least one batch).  The arguments of the final
\* format call include the loop variable `epoch`, unbound when the epoch
\* loop never ran.
TestEval ==
  /\ Running /\ pc = "test"
  /\ IF ~USE_TEST_DSET
       THEN /\ pc' = "end"
            /\ UNCHANGED <<err, out>>
       ELSE \E p \in PredictOutcomes(dev, args.device) :
              IF p # "ok"
                THEN /\ Raise(p)
                     /\ out' = Append(out, LogLine("test_header", 0))
                     /\ UNCHANGED pc
                ELSE IF epoch = Unbound
                  THEN /\ Raise("NameError")
                       /\ out' = Append(out, LogLine("test_header", 0))
                       /\ UNCHANGED pc
                  ELSE /\ out' = out \o <<LogLine("test_header", 0),
                                          LogLine("test_summary", 0)>>
                       /\ pc' = "end"
                       /\ UNCHANGED err
  /\ UNCHANGED <<args, cuda_available, USE_TEST_DSET, numBatches, epoch,
                 batchIdx, cur_no, all_iters, y, t1, A, Z, glas, grad,
                 updates, CLASS_LOSS, AVG_P_AT_K, AVG_NDCG_AT_K, dev, saved,
                 plotted>>

Next ==
  \/ ModelInit
  \/ EpochStart
  \/ BatchStep
  \/ EpochEval
  \/ Plot
  \/ Save
  \/ TestEval

Spec == Init /\ [][Next]_vars

(* ------------------- the batch computations on their own --------------- *)
\* SpecFn draws a batch label matrix and an interval and applies l.184-217
\* to them, MaxIters times in a row, as the loop would if it got there.
InitFn ==
  /\ y \in LabelMatrices(MaxSamples, MaxLabels)
  /\ \E i \in (-MaxInterval)..MaxInterval :
       args = [epochs |-> 0, interval |-> i, batch_size |-> Rows(y),
               device |-> "cpu", plot |-> FALSE, save_model |-> {}]
  /\ cuda_available = FALSE
  /\ USE_TEST_DSET = FALSE
  /\ numBatches = 0
  /\ pc = "fn"
  /\ Blank

FnBatchTail ==
  /\ Running /\ pc = "fn" /\ all_iters < MaxIters
  /\ BatchTail(y)
  /\ UNCHANGED <<args, cuda_available, USE_TEST_DSET, numBatches, pc, epoch,
                 batchIdx, cur_no, y, t1, AVG_P_AT_K, AVG_NDCG_AT_K, dev,
                 saved, plotted>>

NextFn == FnBatchTail

SpecFn == InitFn /\ [][NextFn]_vars

(* ============================== claims ================================= *)
Range(q) == { q[i] : i \in 1..Len(q) }

HasZeroColumn(Y) == \E j \in 1..Cols(Y) : \A i \in 1..Rows(Y) : Y[i][j] = 0

Claim_C4 ==
  (pc = "batch" /\ y # <<>> /\ Cardinality(t1) < args.batch_size)
     => err = "SamplingError"

\* C5: over a non-empty training set the run never stops inside the epoch
\* loop, and once past the loop the loss series has E*B entries (the global
\* iteration counter) and both metric series have E entries.
Claim_C5 ==
  (numBatches >= 1 /\ pc # "start") =>
     /\ (pc \in {"epoch", "batch"} => err = "none")
     /\ (pc \in {"plot", "save", "test", "end"} =>
            /\ Len(CLASS_LOSS) = args.epochs * numBatches
            /\ all_iters = args.epochs * numBatches
            /\ Len(AVG_P_AT_K) = args.epochs
            /\ Len(AVG_NDCG_AT_K) = args.epochs)

ExampleY == << <<1, 0, 1>>, <<0, 1, 1>> >>

\* C6: for a binary batch label matrix without an all-zero column the
\* co-occurrence matrix A is symmetric and A[i][i] is the number of samples
\* carrying label i, which is positive; for Y = [[1,0,1],[0,1,1]]
\* A = [[1,0,1],[0,1,1],[1,1,2]] and Z = diag(1,1,2).
Thm_C6 ==
  (glas # "none" /\ ~HasZeroColumn(y)) =>
     /\ Rows(A) = Cols(y) /\ Cols(A) = Cols(y)
     /\ \A i, j \in 1..Cols(y) : A[i][j] = A[j][i]
     /\ \A i \in 1..Cols(y) :
          /\ A[i][i] = Cardinality({ k \in 1..Rows(y) : y[k][i] = 1 })
          /\ A[i][i] > 0
     /\ (y = ExampleY =>
          /\ A = << <<1, 0, 1>>, <<0, 1, 1>>, <<1, 1, 2>> >>
          /\ Z = << <<1, 0, 0>>, <<0, 1, 0>>, <<0, 0, 2>> >>)

Wit_C6 ==
  /\ y = ExampleY
  /\ A = << <<1, 0, 1>>, <<0, 1, 1>>, <<1, 1, 2>> >>
  /\ glas = "loss"

AllOnDevice == \A s \in Subs : dev[s] = args.device

\* C7: with a held-out set configured (and the model on its device) the
\* held-out evaluation block raises no error, for every epoch count
\* including 0, and the finished run has printed exactly one summary line.
Claim_C7 ==
  (USE_TEST_DSET /\ AllOnDevice /\ pc \in {"test", "end"}) =>
     /\ err = "none"
     /\ (pc = "end" =>
           Cardinality({ i \in 1..Len(out) : out[i].kind = "test_summary" }) = 1)

\* what the claim lets each selector save
SelectorSaves ==
  [sel \in Selectors |->
     CASE sel = "inputAE"   -> {"input_encoder", "input_decoder"}
       [] sel = "outputAE"  -> {"output_encoder", "output_decoder"}
       [] sel = "regressor" -> {"regressor"}
       [] sel = "all"       -> Subs]

\* C8: once the save block has run, the files written are exactly those of
\* the union of the selectors' subcomponents (none without a selector), each
\* named by its subcomponent's prefix and the one run timestamp, at most
\* five; before the save block nothing is written.
Thm_C8 ==
  /\ (pc \in {"test", "end"} =>
        /\ saved = { FileName(s) :
                       s \in UNION { SelectorSaves[sel] : sel \in args.save_model } }
        /\ \A f \in saved : f[3] = TIME_STAMP)
  /\ (pc \notin {"test", "end"} => saved = {})
  /\ Cardinality(saved) <= 5

Wit_C8 ==
  /\ pc = "test"
  /\ args.save_model = {"all"}
  /\ Cardinality(saved) = 5

\* C9: from model initialisation on, in a run with a held-out set to
\* evaluate at the end, every subcomponent is on the configured device.
Claim_C9 ==
  (pc # "start" /\ USE_TEST_DSET) => \A s \in Subs : dev[s] = args.device

\* batches fetched from the training loader so far
Fetched == IF epoch = Unbound THEN 0 ELSE epoch * numBatches + batchIdx

\* C10: the parameters have been updated exactly once for every batch the
\* loop has processed.
Claim_C10 ==
  updates = Fetched

=============================================================================
